---------------------------- MODULE Spec2Model ----------------------------
(* A model of metoceanproviders/cmems.py: the Opendap session.             *)
(*   Spec        construction: __init__ and _copernicusmarine_datastore    *)
(*   SpecCrop    one crop call on a handle the session can hold            *)
(*   SpecExport  one to_netcdf call on a handle the session can hold       *)
(* Strings are sequences of one-character strings, so that strip, replace  *)
(* and the os.path functions are computed and not assumed.  Time is        *)
(* counted in ticks, TicksPerSecond of them in a second.                   *)
EXTENDS Integers, Sequences, FiniteSets

VARIABLES pc, args, self, store, requests, ds, loaded, call, fs, error

vars == <<pc, args, self, store, requests, ds, loaded, call, fs, error>>

(* ------------------------------ bounds ------------------------------ *)

\* longest dataset identifier handed to the constructor
MaxIdLen == 2
\* longest time axis the service delivers in the construction model
MaxLen == 3
\* timestamps of the construction model are 0..MaxTime
MaxTime == 2
\* coordinates of the crop model's axes are 0..MaxCoord
MaxCoord == 3
\* resolution of the time axis: ticks in one second
TicksPerSecond == 2
\* the export model's time axes cover the days 0..MaxDay
MaxDay == 2
\* longest directory or file name of the export model
MaxName == 2

(* ------------------------------ values ------------------------------ *)

\* Python's None, where a string is expected
None == <<"None">>

\* Python's None, where a dataset is expected
NoDataset == [none |-> TRUE]

RECURSIVE SeqsUpTo(_, _)
\* the sequences over S of length at most n
SeqsUpTo(S, n) ==
    IF n = 0 THEN {<<>>}
    ELSE LET shorter == SeqsUpTo(S, n - 1)
         IN  shorter \cup {Append(s, x) : s \in shorter, x \in S}

Range(s) == {s[i] : i \in 1..Len(s)}

RECURSIVE SortedSeq(_)
\* the elements of a finite set of integers, ascending
SortedSeq(S) ==
    IF S = {} THEN <<>>
    ELSE LET m == CHOOSE x \in S : \A y \in S : x <= y
         IN  <<m>> \o SortedSeq(S \ {m})

\* an axis of the handle: a dimension with its coordinate values, or, once a
\* scalar selection has dropped the dimension, the one remaining value
Dim(vals) == [dim |-> TRUE, vals |-> vals]
Scalar0d(v) == [dim |-> FALSE, vals |-> <<v>>]

AxisNames == {"time", "longitude", "latitude", "depth"}

\* rows[i] is the index, in the axis as the service delivered it, of the
\* sample now at position i of the time axis: it identifies the data kept
Dataset(time, longitude, latitude, depth, data_vars) ==
    [time |-> time, longitude |-> longitude, latitude |-> latitude,
     depth |-> depth, data_vars |-> data_vars,
     rows |-> [i \in 1..Len(time.vals) |-> i]]

DataVars == {"uo", "vo"}

BaseAxis == Dim(<<0, 1, 3>>)

(* --------------------------- construction --------------------------- *)

Whitespace == {" "}

RECURSIVE lstrip(_)
lstrip(s) ==
    IF s = <<>> \/ Head(s) \notin Whitespace THEN s ELSE lstrip(Tail(s))

RECURSIVE rstrip(_)
rstrip(s) ==
    IF s = <<>> \/ s[Len(s)] \notin Whitespace THEN s
    ELSE rstrip(SubSeq(s, 1, Len(s) - 1))

\* the arguments a caller can pass
DatasetIds == {None} \cup SeqsUpTo({" ", "x"}, MaxIdLen)
Usernames == {None, <<>>, <<"u">>}
Passwords == {None, <<>>, <<"p">>}

\* what the user can type at a prompt
TypedIds == {<<>>, <<"y">>}
TypedNames == {<<>>, <<"v">>}
TypedPasswords == {<<>>, <<"q">>}

\* `not x' for a string or None
Falsy(x) == x = None \/ x = <<>>

NoStore == [dataset |-> None, username |-> None, password |-> None]
NoSelf == [dataset_id |-> None, username |-> None, password |-> None]
NoCall == [op |-> "none"]

Init ==
    /\ pc = "init"
    /\ args \in [dataset_id : DatasetIds, username : Usernames,
                 password : Passwords]
    /\ self = NoSelf
    /\ store = NoStore
    /\ requests = <<>>
    /\ ds = NoDataset
    /\ loaded = <<>>
    /\ call = NoCall
    /\ fs = {}
    /\ error = "none"

\* __init__, lines 83-96: the fields, the prompts, and the call of
\* _copernicusmarine_datastore with the constructor's own arguments
InitFields ==
    /\ pc = "init"
    /\ IF args.dataset_id = None
       THEN \* None.lstrip()
            /\ self' = [NoSelf EXCEPT !.username = args.username,
                                      !.password = args.password]
            /\ pc' = "failed"
            /\ error' = "AttributeError"
            /\ UNCHANGED store
       ELSE \E typed_id \in TypedIds, typed_name \in TypedNames,
               typed_password \in TypedPasswords :
            LET stripped == rstrip(lstrip(args.dataset_id))
            IN  /\ self' = [dataset_id |->
                               IF stripped = <<>> THEN typed_id ELSE stripped,
                            username |->
                               IF Falsy(args.username) THEN typed_name
                               ELSE args.username,
                            password |->
                               IF Falsy(args.password) THEN typed_password
                               ELSE args.password]
                /\ store' = [dataset |-> args.dataset_id,
                             username |-> args.username,
                             password |-> args.password]
                /\ pc' = "login"
                /\ UNCHANGED error
    /\ UNCHANGED <<args, requests, ds, loaded, call, fs>>

\* _copernicusmarine_datastore, lines 236-244: the login; without the CASTGC
\* cookie it raises CredentialsError
Login ==
    /\ pc = "login"
    /\ \E cookie \in BOOLEAN :
          IF cookie
          THEN pc' = "open_my" /\ UNCHANGED error
          ELSE pc' = "failed" /\ error' = "CredentialsError"
    /\ UNCHANGED <<args, self, store, requests, ds, loaded, call, fs>>

database_swapped == <<"nrt", "my">>

\* line 246
database == <<"my", "nrt">>

\* lines 247-251: the first catalog; a failure of any kind leads to the second
OpenFirst ==
    /\ pc = "open_my"
    /\ \E ok \in BOOLEAN :
          /\ requests' = Append(requests, [db |-> database[1], ok |-> ok])
          /\ pc' = IF ok THEN "open_dataset" ELSE "open_nrt"
    /\ UNCHANGED <<args, self, store, ds, loaded, call, fs, error>>

\* lines 252-254: the second catalog; its failure leaves the function
OpenSecond ==
    /\ pc = "open_nrt"
    /\ \E ok \in BOOLEAN :
          /\ requests' = Append(requests, [db |-> database[2], ok |-> ok])
          /\ IF ok
             THEN pc' = "open_dataset" /\ UNCHANGED error
             ELSE pc' = "failed" /\ error' = "OpenUrlError"
    /\ UNCHANGED <<args, self, store, ds, loaded, call, fs>>

\* the time axes the service can deliver, repeated timestamps included
LoadedTimeAxes == SeqsUpTo(0..MaxTime, MaxLen) \ {<<>>}

unique_last_index(vals) ==
    LET values == SortedSeq(Range(vals))
    IN  [k \in 1..Len(values) |->
            CHOOSE i \in 1..Len(vals) :
                /\ vals[i] = values[k]
                /\ \A j \in (i + 1)..Len(vals) : vals[j] # values[k]]

\* np.unique(x, return_index=True)[1], line 109: for each distinct value, in
\* ascending order of value, the index of its first occurrence
unique_index(vals) ==
    LET values == SortedSeq(Range(vals))
    IN  [k \in 1..Len(values) |->
            CHOOSE i \in 1..Len(vals) :
                /\ vals[i] = values[k]
                /\ \A j \in 1..(i - 1) : vals[j] # values[k]]

\* ds.isel(time=index)
isel_time(d, index) ==
    [d EXCEPT !.time = Dim([k \in 1..Len(index) |-> d.time.vals[index[k]]]),
              !.rows = [k \in 1..Len(index) |-> d.rows[index[k]]]]

\* lines 105-110
DropRepeatedTimes(d) ==
    IF Cardinality(Range(d.time.vals)) # Len(d.time.vals)
    THEN isel_time(d, unique_index(d.time.vals))
    ELSE d

\* __init__, lines 97-111: the dataset is opened and its repeated times dropped
OpenDataset ==
    /\ pc = "open_dataset"
    /\ \/ \E t \in LoadedTimeAxes :
             /\ loaded' = t
             /\ ds' = DropRepeatedTimes(
                        Dataset(Dim(t), BaseAxis, BaseAxis, BaseAxis, DataVars))
             /\ pc' = "ready"
             /\ UNCHANGED error
       \/ /\ pc' = "failed"
          /\ error' = "OpenDatasetError"
          /\ UNCHANGED <<ds, loaded>>
    /\ UNCHANGED <<args, self, store, requests, call, fs>>

Next == InitFields \/ Login \/ OpenFirst \/ OpenSecond \/ OpenDataset

Spec == Init /\ [][Next]_vars

(* --------------------- claims about construction --------------------- *)

HasRepeat(vals) == Cardinality(Range(vals)) # Len(vals)

\* C1: when the loaded time axis repeats a timestamp, the constructed handle's
\* time axis is strictly increasing, holds exactly the distinct timestamps of
\* the loaded axis, and each kept sample is the one at the lowest original
\* index that carries its timestamp.
C1_FirstOccurrenceKept ==
    (pc = "ready" /\ HasRepeat(loaded)) =>
        /\ ds.time.dim
        /\ Len(ds.rows) = Len(ds.time.vals)
        /\ \A k \in 1..(Len(ds.time.vals) - 1) :
               ds.time.vals[k] < ds.time.vals[k + 1]
        /\ Range(ds.time.vals) = Range(loaded)
        /\ \A k \in 1..Len(ds.time.vals) :
               /\ ds.rows[k] \in 1..Len(loaded)
               /\ loaded[ds.rows[k]] = ds.time.vals[k]
               /\ \A j \in 1..(ds.rows[k] - 1) : loaded[j] # ds.time.vals[k]

\* a repeated timestamp whose first occurrence is not where the sorted axis
\* puts it: the loaded axis 1, 0, 1 and the like
C1_Witness ==
    /\ pc = "ready"
    /\ HasRepeat(loaded)
    /\ Len(ds.time.vals) >= 2
    /\ \E k \in 1..Len(ds.rows) : ds.rows[k] # k

\* C2: after a successful login "my" is requested first, "nrt" only after "my"
\* has failed, each at most once, and the function fails with the open error
\* exactly when both requests failed.
C2_FallbackOrder ==
    /\ Len(requests) <= 2
    /\ requests # <<>> =>
           /\ requests[1].db = "my"
           /\ error # "CredentialsError"
           /\ pc \notin {"init", "login"}
    /\ Len(requests) = 2 => (requests[2].db = "nrt" /\ ~requests[1].ok)
    /\ (error = "OpenUrlError") <=>
           (Len(requests) = 2 /\ ~requests[1].ok /\ ~requests[2].ok)
    /\ pc \in {"open_dataset", "ready"} =>
           (requests # <<>> /\ requests[Len(requests)].ok)
    /\ pc = "open_nrt" => (Len(requests) = 1 /\ ~requests[1].ok)

\* both catalogs were tried and both failed
C2_Witness ==
    /\ pc = "failed"
    /\ error = "OpenUrlError"
    /\ Len(requests) = 2

\* C3: the dataset is resolved with the trimmed (or typed) identifier, the
\* login uses the supplied or typed username and password, and an absent
\* identifier leads to a prompt, not to a failure.
C3_EffectiveValuesUsed ==
    pc # "init" =>
        /\ error # "AttributeError"
        /\ store.dataset = self.dataset_id
        /\ store.username = self.username
        /\ store.password = self.password
        /\ rstrip(lstrip(args.dataset_id)) # <<>> =>
               store.dataset = rstrip(lstrip(args.dataset_id))
        /\ ~Falsy(args.username) => store.username = args.username
        /\ ~Falsy(args.password) => store.password = args.password


(* ------------------------------- crop ------------------------------- *)

\* a selector argument: None, one value, or slice(start, stop)
NoSel == [kind |-> "none", start |-> 0, stop |-> 0]
Point(v) == [kind |-> "scalar", start |-> v, stop |-> v]
Slice(a, b) == [kind |-> "slice", start |-> a, stop |-> b]

SelectorValues == {1, 2}

Selectors ==
    {NoSel} \cup {Point(v) : v \in SelectorValues}
            \cup {Slice(r[1], r[2]) :
                      r \in {q \in SelectorValues \X SelectorValues :
                                q[1] <= q[2]}}

DepthSelectors == {NoSel, Point(1), Slice(1, 2)}

\* the variables argument: None, or a list of names ("zz" names no variable)
NoVariables == [given |-> FALSE, names |-> {}]
VariableLists == {[given |-> TRUE, names |-> S] : S \in SUBSET {"uo", "zz"} \ {{}}}

Methods == {"neareast_outside", "nearest"}

np_diff_min(vals) ==
    LET diffs == {vals[i + 1] - vals[i] : i \in 1..(Len(vals) - 1)}
    IN  CHOOSE m \in diffs : \A x \in diffs : m <= x

\* np.diff(vals).max(), lines 139-159
np_diff_max(vals) ==
    LET diffs == {vals[i + 1] - vals[i] : i \in 1..(Len(vals) - 1)}
    IN  CHOOSE m \in diffs : \A x \in diffs : m >= x

\* .astype("timedelta64[s]"), lines 141 and 146: whole seconds, in ticks
astype_seconds(d) == (d \div TicksPerSecond) * TicksPerSecond

\* np.diff(...).max() raises on None, on a dropped dimension and on an axis of
\* fewer than two samples
DiffError(d, name) ==
    IF d = NoDataset THEN "TypeError"
    ELSE IF d[name].dim /\ Len(d[name].vals) >= 2 THEN "none"
    ELSE "ValueError"

\* lines 134-160: the selectors as widened by the default method; depths has
\* no branch here
Expand(d, times, longitudes, latitudes, method) ==
    LET unchanged == [raised |-> "none", times |-> times,
                      longitudes |-> longitudes, latitudes |-> latitudes]
        failed(e) == [unchanged EXCEPT !.raised = e]
    IN  IF method # "neareast_outside" THEN unchanged
        ELSE IF times.kind = "slice" /\ DiffError(d, "time") # "none"
             THEN failed(DiffError(d, "time"))
        ELSE IF longitudes.kind = "slice" /\ DiffError(d, "longitude") # "none"
             THEN failed(DiffError(d, "longitude"))
        ELSE IF latitudes.kind = "slice" /\ DiffError(d, "latitude") # "none"
             THEN failed(DiffError(d, "latitude"))
        ELSE [raised |-> "none",
              times |->
                 IF times.kind = "slice"
                 THEN LET dt == astype_seconds(np_diff_max(d.time.vals))
                      IN  Slice(times.start - dt, times.stop + dt)
                 ELSE times,
              longitudes |->
                 IF longitudes.kind = "slice"
                 THEN LET dx == np_diff_max(d.longitude.vals)
                      IN  Slice(longitudes.start - dx, longitudes.stop + dx)
                 ELSE longitudes,
              latitudes |->
                 IF latitudes.kind = "slice"
                 THEN LET dy == np_diff_max(d.latitude.vals)
                      IN  Slice(latitudes.start - dy, latitudes.stop + dy)
                 ELSE latitudes]

\* the names sel accepts: the dimensions of the handle
DimNames(d) == {n \in AxisNames : d[n].dim}

\* the handle with the samples at the positions idx (ascending) of one axis
Take(d, name, idx) ==
    LET kept == [k \in 1..Len(idx) |-> d[name].vals[idx[k]]]
    IN  IF name = "time"
        THEN [d EXCEPT !.time = Dim(kept),
                       !.rows = [k \in 1..Len(idx) |-> d.rows[idx[k]]]]
        ELSE [d EXCEPT ![name] = Dim(kept)]

\* the position sel(..., method="nearest") picks on an increasing index: the
\* closest value, the later one of two equally close
Nearest(vals, v) ==
    LET dist(i) == IF vals[i] >= v THEN vals[i] - v ELSE v - vals[i]
    IN  CHOOSE i \in 1..Len(vals) :
            \A j \in 1..Len(vals) :
                dist(i) < dist(j) \/ (dist(i) = dist(j) /\ i >= j)

\* Dataset.sel(name=selector), with method="nearest" for one value, lines
\* 163-185: the handle it returns, or the error it raises
sel(d, name, selector) ==
    IF d = NoDataset THEN [raised |-> "AttributeError", ds |-> d]
    ELSE IF name \notin DimNames(d) THEN [raised |-> "KeyError", ds |-> d]
    ELSE IF selector.kind = "slice"
         THEN LET vals == d[name].vals
                  idx == SortedSeq({i \in 1..Len(vals) :
                             selector.start <= vals[i] /\ vals[i] <= selector.stop})
              IN  [raised |-> "none", ds |-> Take(d, name, idx)]
    ELSE IF d[name].vals = <<>> THEN [raised |-> "KeyError", ds |-> d]
    ELSE LET i == Nearest(d[name].vals, selector.start)
         IN  [raised |-> "none",
              ds |-> IF name = "time"
                     THEN [d EXCEPT !.time = Scalar0d(d.time.vals[i]),
                                    !.rows = <<d.rows[i]>>]
                     ELSE [d EXCEPT ![name] = Scalar0d(d[name].vals[i])]]

NoneUsed == [a \in AxisNames |-> NoSel]

\* one of the four `if ... is not None' blocks, lines 163-185: self.ds is
\* assigned only when sel returns
SelectStep(s, axis, name, selector) ==
    IF s.raised # "none" \/ selector.kind = "none" THEN s
    ELSE LET r == sel(s.ds, name, selector)
         IN  [raised |-> r.raised, ds |-> r.ds,
              used |-> [s.used EXCEPT ![axis] = selector]]

\* Dataset.get(names), line 189: Mapping.get, None when a name is missing
get(d, names) ==
    IF names \subseteq d.data_vars THEN [d EXCEPT !.data_vars = names]
    ELSE NoDataset

\* lines 187-193; load() changes no coordinate and its errors are swallowed
ProjectStep(s, variables) ==
    IF s.raised # "none" \/ ~variables.given THEN s
    ELSE IF s.ds = NoDataset THEN [s EXCEPT !.raised = "AttributeError"]
    ELSE [s EXCEPT !.ds = get(s.ds, variables.names)]

\* crop, lines 133-193
CropResult(d, variables, times, longitudes, latitudes, depths, method) ==
    LET e == Expand(d, times, longitudes, latitudes, method)
        s0 == [raised |-> e.raised, ds |-> d, used |-> NoneUsed]
        s1 == SelectStep(s0, "time", "time", e.times)
        s2 == SelectStep(s1, "longitude", "longitude", e.longitudes)
        s3 == SelectStep(s2, "latitude", "latitude", e.latitudes)
        s4 == SelectStep(s3, "depth", "detph", depths)
    IN  ProjectStep(s4, variables)

\* an axis as construction or earlier crop calls leave it
CropAxes ==
    {Dim(SortedSeq(S)) : S \in SUBSET (0..MaxCoord)}
        \cup {Scalar0d(v) : v \in 0..MaxCoord}

\* the handles a crop call can find: None (left by an earlier projection), and
\* datasets one of whose axes is any of CropAxes
CropHandles ==
    {NoDataset}
        \cup {Dataset(a, BaseAxis, BaseAxis, BaseAxis, DataVars) : a \in CropAxes}
        \cup {Dataset(BaseAxis, a, BaseAxis, BaseAxis, DataVars) : a \in CropAxes}
        \cup {Dataset(BaseAxis, BaseAxis, a, BaseAxis, DataVars) : a \in CropAxes}

CropInit ==
    /\ pc = "ready"
    /\ ds \in CropHandles
    /\ args = NoSelf
    /\ self = NoSelf
    /\ store = NoStore
    /\ requests = <<>>
    /\ loaded = <<>>
    /\ call = NoCall
    /\ fs = {}
    /\ error = "none"

Crop ==
    /\ pc = "ready"
    /\ \E variables \in {NoVariables} \cup VariableLists,
          times \in Selectors, longitudes \in Selectors,
          latitudes \in Selectors, depths \in DepthSelectors,
          method \in Methods :
          LET r == CropResult(ds, variables, times, longitudes, latitudes,
                              depths, method)
          IN  /\ ds' = r.ds
              /\ call' = [op |-> "crop", variables |-> variables,
                          given |-> [time |-> times, longitude |-> longitudes,
                                     latitude |-> latitudes, depth |-> depths],
                          method |-> method, before |-> ds,
                          used |-> r.used, raised |-> r.raised]
    /\ pc' = "called"
    /\ UNCHANGED <<args, self, store, requests, loaded, fs, error>>

CropNext == Crop

SpecCrop == CropInit /\ [][CropNext]_vars


(* ------------------------- claims about crop ------------------------- *)

\* every axis of the handle is a dimension of two samples or more
Regular(d) ==
    /\ d # NoDataset
    /\ \A a \in AxisNames : d[a].dim /\ Len(d[a].vals) >= 2

\* the largest difference of two consecutive values of the axis is g
IsMaxGap(vals, g) ==
    /\ \E i \in 1..(Len(vals) - 1) : vals[i + 1] - vals[i] = g
    /\ \A i \in 1..(Len(vals) - 1) : vals[i + 1] - vals[i] <= g

\* C4, as amended: with the default method a range [a, b] on time, longitude
\* or latitude is handed to the selection as [a - d, b + d], d being the
\* largest difference of consecutive values of that axis in the handle as the
\* call found it, for time cut down to whole seconds; a range on depth and
\* every single value are handed over as given, and so is every selector
\* under another method.
C4_RangesWidened ==
    call.op = "crop" =>
        /\ \A a \in {"time", "longitude", "latitude"} :
              (/\ call.method = "neareast_outside"
               /\ call.given[a].kind = "slice"
               /\ call.used[a].kind # "none") =>
                  \E g \in 0..(MaxCoord + 1) :
                      LET d == IF a = "time" THEN g - (g % TicksPerSecond)
                               ELSE g
                      IN  /\ IsMaxGap(call.before[a].vals, g)
                          /\ call.used[a] =
                                Slice(call.given[a].start - d,
                                      call.given[a].stop + d)
        /\ \A a \in AxisNames :
              (\/ call.method # "neareast_outside"
               \/ call.given[a].kind # "slice"
               \/ a = "depth") =>
                  call.used[a] \in {NoSel, call.given[a]}
        /\ \A a \in AxisNames :
              (call.raised = "none" /\ call.given[a].kind # "none") =>
                  call.used[a].kind = call.given[a].kind

\* a call that returned, with a time range widened by a gap of one second and
\* a half (cut to one second) and a longitude range widened as well
C4_Witness ==
    /\ call.op = "crop"
    /\ call.method = "neareast_outside"
    /\ call.raised = "none"
    /\ call.given.time.kind = "slice"
    /\ call.used.time.kind = "slice"
    /\ call.before.time.vals = <<0, 1, 3>>
    /\ call.used.time.start < call.given.time.start
    /\ call.given.longitude.kind = "slice"
    /\ call.used.longitude.start < call.given.longitude.start

\* C4 as claimed: on each of the four axes a range is widened by the largest
\* spacing of the axis.
C4_Claimed ==
    (/\ call.op = "crop"
     /\ call.method = "neareast_outside"
     /\ Regular(call.before)) =>
        \A a \in AxisNames :
            (call.given[a].kind = "slice" /\ call.used[a].kind # "none") =>
                \E g \in 0..(MaxCoord + 1) :
                    /\ IsMaxGap(call.before[a].vals, g)
                    /\ call.used[a] = Slice(call.given[a].start - g,
                                            call.given[a].stop + g)

\* the samples of vals within [lo, hi], in order
Within(vals, lo, hi) ==
    LET idx == SortedSeq({i \in 1..Len(vals) : lo <= vals[i] /\ vals[i] <= hi})
    IN  [k \in 1..Len(idx) |-> vals[idx[k]]]

\* C5: on each of the four axes a range keeps exactly the samples within the
\* bounds handed to the selection, and a single value keeps exactly one
\* sample, no other being nearer to the value.
C5_AxisSelected ==
    (call.op = "crop" /\ Regular(call.before) /\ ~call.variables.given) =>
        /\ call.raised = "none"
        /\ \A a \in AxisNames :
              /\ call.given[a].kind = "none" => ds[a] = call.before[a]
              /\ call.given[a].kind = "slice" =>
                    ds[a] = Dim(Within(call.before[a].vals,
                                       call.used[a].start, call.used[a].stop))
              /\ call.given[a].kind = "scalar" =>
                    /\ ~ds[a].dim
                    /\ ds[a].vals[1] \in Range(call.before[a].vals)
                    /\ \A x \in Range(call.before[a].vals) :
                          LET dist(y) == IF y >= call.given[a].start
                                         THEN y - call.given[a].start
                                         ELSE call.given[a].start - y
                          IN  dist(ds[a].vals[1]) <= dist(x)

\* only the listed axes are selected on
NoSelectorBut(axes) ==
    \A a \in AxisNames \ axes : call.given[a].kind = "none"

\* C6: with a variable list all of whose names exist the handle afterwards
\* holds exactly the listed variables; with a name that does not exist the
\* call raises.
C6_ProjectionOrError ==
    (/\ call.op = "crop"
     /\ call.variables.given
     /\ Regular(call.before)
     /\ NoSelectorBut({})) =>
        IF call.variables.names \subseteq call.before.data_vars
        THEN /\ call.raised = "none"
             /\ ds # NoDataset
             /\ ds.data_vars = call.variables.names
        ELSE call.raised # "none"

\* C10: a call that raises leaves the handle as it found it, and a call that
\* returns leaves a dataset narrowed by each selector.  Stated for the calls
\* that give neither a variable list nor a depth selector.
C10_AllOrNothing ==
    (/\ call.op = "crop"
     /\ call.before # NoDataset
     /\ ~call.variables.given
     /\ NoSelectorBut({"time", "longitude", "latitude"})) =>
        /\ call.raised # "none" => ds = call.before
        /\ call.raised = "none" =>
              /\ ds # NoDataset
              /\ \A a \in AxisNames :
                    call.given[a].kind # "none" => call.used[a].kind # "none"

(* ------------------------------ export ------------------------------ *)

TicksPerDay == 86400 * TicksPerSecond

\* the process's working directory
Cwd == <<"/", "w">>

\* os.path.abspath, line 204, for the paths of OutputPaths, which hold no
\* empty, "." or ".." component: a relative path is joined to the cwd
abspath(p) ==
    IF p # <<>> /\ p[1] = "/" THEN p ELSE Cwd \o <<"/">> \o p

\* str.rfind(c) + 1: the position of the last c, 0 without one
LastIndex(p, c) ==
    IF \E i \in 1..Len(p) : p[i] = c
    THEN CHOOSE i \in 1..Len(p) :
             p[i] = c /\ \A j \in (i + 1)..Len(p) : p[j] # c
    ELSE 0

RECURSIVE rstrip_sep(_)
rstrip_sep(p) ==
    IF p = <<>> \/ p[Len(p)] # "/" THEN p
    ELSE rstrip_sep(SubSeq(p, 1, Len(p) - 1))

\* os.path.dirname, line 213
dirname(p) ==
    LET head == SubSeq(p, 1, LastIndex(p, "/"))
    IN  IF head # <<>> /\ \E i \in 1..Len(head) : head[i] # "/"
        THEN rstrip_sep(head)
        ELSE head

\* os.path.basename, line 214
basename(p) == SubSeq(p, LastIndex(p, "/") + 1, Len(p))

\* os.path.splitext of a name without separator, line 214: the extension
\* starts at the last dot, unless only dots precede it
splitext(name) ==
    LET dot == LastIndex(name, ".")
    IN  IF dot > 0 /\ \E i \in 1..(dot - 1) : name[i] # "."
        THEN <<SubSeq(name, 1, dot - 1), SubSeq(name, dot, Len(name))>>
        ELSE <<name, <<>>>>

RECURSIVE remove(_, _)
\* s.replace(c, ""), line 218
remove(s, c) ==
    IF s = <<>> THEN <<>>
    ELSE IF Head(s) = c THEN remove(Tail(s), c)
    ELSE <<Head(s)>> \o remove(Tail(s), c)

Digit(n) == <<"0", "1", "2", "3", "4", "5", "6", "7", "8", "9">>[n + 1]

\* str(datetime.date), line 218, for day number `day' of January 1970
DateStr(day) ==
    <<"1", "9", "7", "0", "-", "0", "1", "-",
      Digit((day + 1) \div 10), Digit((day + 1) % 10)>>

\* the keys of groupby("time.date"), line 216: the dates of the time axis,
\* ascending
dates(d) == SortedSeq({d.time.vals[i] \div TicksPerDay : i \in 1..Len(d.time.vals)})

\* line 218: the f-string, and replace("-", "") on all of it
daily_path(output_dir, filename, day, file_ext) ==
    remove(output_dir \o <<"/">> \o filename \o <<"_">> \o DateStr(day)
               \o file_ext, "-")

\* to_daily_netcdf, lines 212-222: the paths it returns, or the error raised;
\* saved tells whether save_mfdataset succeeds
to_daily_netcdf(d, output_path, saved) ==
    LET output_dir == dirname(output_path)
        filename == splitext(basename(output_path))[1]
        file_ext == splitext(basename(output_path))[2]
    IN  IF d = NoDataset THEN [raised |-> "AttributeError", paths |-> <<>>]
        ELSE IF ~d.time.dim \/ d.time.vals = <<>>
             THEN [raised |-> "ValueError", paths |-> <<>>]
        ELSE LET date == dates(d)
                 paths == [k \in 1..Len(date) |->
                              daily_path(output_dir, filename, date[k], file_ext)]
             IN  [raised |-> IF saved THEN "none" ELSE "OSError",
                  paths |-> paths]

\* what a function returns
NoneValue == [kind |-> "None", value |-> <<>>]
PathValue(p) == [kind |-> "path", value |-> p]
PathsValue(ps) == [kind |-> "paths", value |-> ps]

\* how the single-file write of line 206 ends
WriteOutcomes == {"ok", "too_large", "permission_denied", "disk_full"}

Names == SeqsUpTo({"a", "-"}, MaxName) \ {<<>>}
Extensions == {<<>>, <<".", "n", "c">>}

\* the paths a caller asks for: /dir/name.ext, and name.ext in the cwd
OutputPaths ==
    {<<"/">> \o dir \o <<"/">> \o name \o ext :
        dir \in Names, name \in Names, ext \in Extensions}
        \cup {name \o ext : name \in Names, ext \in Extensions}

\* midnight and one o'clock of each day
ExportTimes ==
    {day * TicksPerDay + h * 3600 * TicksPerSecond : day \in 0..MaxDay, h \in {0, 1}}

\* the handles a to_netcdf call can find
ExportHandles ==
    {NoDataset}
        \cup {Dataset(Dim(SortedSeq(S)), BaseAxis, BaseAxis, BaseAxis, DataVars) :
                 S \in SUBSET ExportTimes}
        \cup {Dataset(Scalar0d(t), BaseAxis, BaseAxis, BaseAxis, DataVars) :
                 t \in ExportTimes}

ExportInit ==
    /\ pc = "ready"
    /\ ds \in ExportHandles
    /\ args = NoSelf
    /\ self = NoSelf
    /\ store = NoStore
    /\ requests = <<>>
    /\ loaded = <<>>
    /\ call = NoCall
    /\ fs = {}
    /\ error = "none"

\* to_netcdf, lines 195-210: any error of the single-file write, the
\* AttributeError of a None handle included, leads to to_daily_netcdf; the
\* function has no return statement
ToNetcdf ==
    /\ pc = "ready"
    /\ \E path \in OutputPaths, outcome \in WriteOutcomes, saved \in BOOLEAN :
          LET output_path == abspath(path)
              failure == IF ds = NoDataset THEN "AttributeError" ELSE outcome
              r == to_daily_netcdf(ds, output_path, saved)
          IN  IF failure = "ok"
              THEN /\ fs' = fs \cup {output_path}
                   /\ call' = [op |-> "to_netcdf", output_path |-> path,
                               failure |-> failure, fallback |-> FALSE,
                               paths |-> <<>>, raised |-> "none",
                               returned |-> NoneValue]
              ELSE /\ fs' = IF r.raised = "none" THEN fs \cup Range(r.paths)
                            ELSE fs
                   /\ call' = [op |-> "to_netcdf", output_path |-> path,
                               failure |-> failure, fallback |-> TRUE,
                               paths |-> r.paths, raised |-> r.raised,
                               returned |-> NoneValue]
    /\ pc' = "called"
    /\ UNCHANGED <<args, self, store, requests, ds, loaded, error>>

ExportNext == ToNetcdf

SpecExport == ExportInit /\ [][ExportNext]_vars

(* ------------------------ claims about export ------------------------ *)

\* C7: when the single-file write fails and the split succeeds, the files
\* written are exactly dir/base_YYYYMMDD.ext, one for each date of the time
\* axis, dir/base.ext being the requested path made absolute.
C7_DailyPaths ==
    (call.op = "to_netcdf" /\ call.fallback /\ call.raised = "none") =>
        LET requested == abspath(call.output_path)
            name == splitext(basename(requested))
        IN  /\ fs = {dirname(requested) \o <<"/">> \o name[1] \o <<"_">>
                        \o remove(DateStr(day), "-") \o name[2] :
                     day \in Range(dates(ds))}
            /\ Cardinality(fs) = Cardinality(Range(dates(ds)))
            /\ \A p \in fs : dirname(p) = dirname(requested)

\* C8: to_netcdf returns the absolute output path after a single-file write
\* and the list of per-date paths after a split.
C8_ReturnsPaths ==
    (call.op = "to_netcdf" /\ call.raised = "none") =>
        call.returned = IF call.fallback THEN PathsValue(call.paths)
                        ELSE PathValue(abspath(call.output_path))

\* C9: the split is taken only when the single-file write failed as too
\* large; any other failure is raised to the caller and writes no daily file.
C9_SplitOnlyWhenTooLarge ==
    (call.op = "to_netcdf" /\ ds # NoDataset) =>
        /\ call.fallback => call.failure = "too_large"
        /\ call.failure \notin {"ok", "too_large"} =>
              (call.raised # "none" /\ fs = {})

=============================================================================
